---- MODULE Spec2Model ----
(***************************************************************************)
(* Hotel / customer / reservation stores of hotel.py, customer.py and      *)
(* reservation.py.  Every public operation reloads its JSON snapshot,      *)
(* changes the loaded dictionary and rewrites the whole file.              *)
(***************************************************************************)
EXTENDS Integers, Sequences, FiniteSets, TLC

(* ---------------------------------------------------------------------- *)
(* Bounds and input domains                                               *)
(* ---------------------------------------------------------------------- *)
MaxRooms == 2
MaxCalls == 3

HotelIds == {"H1", "H2"}
CustomerIds == {"C1", "C2"}
ReservationIds == {"r1", "r2"}
Strings == {"a", "b"}
Dates == {"d1", "d2"}
Rooms == 0..MaxRooms
Procs == {1, 2}

(* Python None for an optional string argument, and for an optional int.   *)
NoneStr == "<None>"
NoInt == {}

(* ---------------------------------------------------------------------- *)
(* State                                                                  *)
(* ---------------------------------------------------------------------- *)
VARIABLE hotelsFile        \* content of data/hotels.json
VARIABLE customersFile     \* content of data/customers.json
VARIABLE reservationsFile  \* content of data/reservations.json
VARIABLE last              \* the call that produced this state: name, arguments, result
VARIABLE pc                \* race model: position of each caller inside reserve_room
VARIABLE local             \* race model: the dictionary each caller loaded
VARIABLE target            \* race model: hotel_id each caller passed
VARIABLE result            \* race model: values returned to each caller so far
VARIABLE overlapped        \* race model: a caller loaded while another was between load and save
VARIABLE initial           \* race model: hotels dictionary before the first call

vars == <<hotelsFile, customersFile, reservationsFile, last,
          pc, local, target, result, overlapped, initial>>
files == <<hotelsFile, customersFile, reservationsFile>>
raceVars == <<pc, local, target, result, overlapped, initial>>

(* ---------------------------------------------------------------------- *)
(* File contents and the load / save helpers                              *)
(* ---------------------------------------------------------------------- *)
EmptyDict == [k \in {} |-> k]

(* A file is missing, holds text that is not JSON, or holds a JSON object. *)
MissingFile == [kind |-> "missing", dict |-> EmptyDict, items |-> {}]
GarbledFile == [kind |-> "garbled", dict |-> EmptyDict, items |-> {}]
DictFile(d) == [kind |-> "dict", dict |-> d, items |-> {}]

(* Text written into a file from outside the stores that decodes to a JSON *)
(* list of strings, or to a number                                         *)
ListFile(items) == [kind |-> "list", dict |-> EmptyDict, items |-> items]
NumberFile == [kind |-> "number", dict |-> EmptyDict, items |-> {}]

(* hotel.py _load_hotels, customer.py _load_customers,                     *)
(* reservation.py _load_reservations: {} unless the file decodes to a dict *)
LoadDict(file) == IF file.kind = "dict" THEN file.dict ELSE EmptyDict

_load_hotels(file) == LoadDict(file)
_load_customers(file) == LoadDict(file)
_load_reservations(file) == LoadDict(file)

(* reservation.py has its own loaders of customers and hotels, used only   *)
(* for the membership tests of create_reservation.                         *)
(* They return whatever json.load returns, a dictionary or not, and {} for *)
(* a file that is missing or does not decode.                              *)
LoadJson(file) ==
  IF file.kind \in {"missing", "garbled"} THEN DictFile(EmptyDict) ELSE file

res_load_customers(file) == LoadJson(file)
res_load_hotels(file) == LoadJson(file)

(* Python's "x in value" for a decoded JSON value: a key of a dictionary,  *)
(* an element of a list, TypeError for a number                            *)
In(x, value) ==
  IF value.kind = "dict" THEN (IF x \in DOMAIN value.dict THEN "True" ELSE "False")
  ELSE IF value.kind = "list" THEN (IF x \in value.items THEN "True" ELSE "False")
  ELSE "TypeError"

(* Outcome of one write: "ok"; "unchanged" when open() raises OSError;     *)
(* "truncated" when open() succeeded and the write raised OSError, which   *)
(* leaves text that no longer decodes.  The OSError is caught and printed. *)
SaveOutcomes == {"ok", "unchanged", "truncated"}

(* os.makedirs("data", exist_ok=True) stands before the try of every       *)
(* _save_*: when it raises OSError nothing is written and the exception    *)
(* leaves the operation that called the save ("raises").                   *)
SaveFaults == SaveOutcomes \cup {"raises"}

SaveDict(file, d, w) ==
  IF w = "ok" THEN DictFile(d)
  ELSE IF w = "truncated" THEN GarbledFile
  ELSE file

(* What an operation returns after its save: its own result, or the        *)
(* OSError of os.makedirs in place of it.                                  *)
Returning(w, r) ==
  IF w = "raises" THEN [r EXCEPT !.ret = "OSError", !.obj = EmptyDict] ELSE r

_save_hotels(file, d, w) == SaveDict(file, d, w)
_save_customers(file, d, w) == SaveDict(file, d, w)
_save_reservations(file, d, w) == SaveDict(file, d, w)

(* dict[k] = v and del dict[k] *)
Put(d, k, v) == [x \in (DOMAIN d) \cup {k} |-> IF x = k THEN v ELSE d[x]]
Del(d, k) == [x \in (DOMAIN d) \ {k} |-> d[x]]

(* Python truthiness of an optional string argument: None and "" are falsy *)
Truthy(s) == s # NoneStr /\ s # ""

Max(a, b) == IF a >= b THEN a ELSE b

(* ---------------------------------------------------------------------- *)
(* Hotel                                                                  *)
(* ---------------------------------------------------------------------- *)
(* Hotel.__init__ followed by Hotel.to_dict *)
HotelDict(hotel_id, name, location, total_rooms) ==
  [hotel_id |-> hotel_id, name |-> name, location |-> location,
   total_rooms |-> total_rooms, available_rooms |-> total_rooms]

(* Results of the store operations: the file afterwards, the value         *)
(* returned ("None", "True", "False" or "object"), the object returned     *)
(* and the saves / nested calls in the order they happened.                *)
NoObj == EmptyDict

(* What an operation can raise, in place of a returned value *)
Exceptions == {"OSError", "KeyError", "TypeError"}

(* Hotel.from_dict: a record without available_rooms gets total_rooms *)
Hotel_from_dict(data) ==
  [hotel_id |-> data.hotel_id, name |-> data.name, location |-> data.location,
   total_rooms |-> data.total_rooms,
   available_rooms |-> IF "available_rooms" \in DOMAIN data
                       THEN data.available_rooms ELSE data.total_rooms]

(* create_hotel without the test for an existing id *)
create_hotel_overwrites(file, hotel_id, name, location, total_rooms, w) ==
  LET hotels == _load_hotels(file)
      hotel == HotelDict(hotel_id, name, location, total_rooms)
  IN Returning(w, [file |-> _save_hotels(file, Put(hotels, hotel_id, hotel), w),
      ret |-> "object", obj |-> hotel, log |-> <<"save_hotels:" \o w>>])

create_hotel(file, hotel_id, name, location, total_rooms, w) ==
  LET hotels == _load_hotels(file) IN
  IF hotel_id \in DOMAIN hotels
  THEN [file |-> file, ret |-> "None", obj |-> NoObj, log |-> <<>>]
  ELSE LET hotel == HotelDict(hotel_id, name, location, total_rooms) IN
       Returning(w, [file |-> _save_hotels(file, Put(hotels, hotel_id, hotel), w),
        ret |-> "object", obj |-> hotel, log |-> <<"save_hotels:" \o w>>])

(* delete_hotel written with hotels.pop(hotel_id, None) and no test *)
delete_hotel_lenient(file, hotel_id, w) ==
  LET hotels == _load_hotels(file) IN
  Returning(w, [file |-> _save_hotels(file, Del(hotels, hotel_id), w),
   ret |-> "True", obj |-> NoObj, log |-> <<"save_hotels:" \o w>>])

delete_hotel(file, hotel_id, w) ==
  LET hotels == _load_hotels(file) IN
  IF hotel_id \notin DOMAIN hotels
  THEN [file |-> file, ret |-> "False", obj |-> NoObj, log |-> <<>>]
  ELSE Returning(w, [file |-> _save_hotels(file, Del(hotels, hotel_id), w),
        ret |-> "True", obj |-> NoObj, log |-> <<"save_hotels:" \o w>>])

(* display_hotel that saves the dictionary it loaded *)
display_hotel_saves(file, hotel_id) ==
  LET hotels == _load_hotels(file) IN
  IF hotel_id \notin DOMAIN hotels
  THEN [file |-> _save_hotels(file, hotels, "ok"), ret |-> "None",
        obj |-> NoObj, log |-> <<>>]
  ELSE [file |-> _save_hotels(file, hotels, "ok"), ret |-> "object",
        obj |-> Hotel_from_dict(hotels[hotel_id]), log |-> <<>>]

(* data['available_rooms'] is printed before Hotel.from_dict is reached *)
display_hotel(file, hotel_id) ==
  LET hotels == _load_hotels(file) IN
  IF hotel_id \notin DOMAIN hotels
  THEN [file |-> file, ret |-> "None", obj |-> NoObj, log |-> <<>>]
  ELSE LET data == hotels[hotel_id] IN
       IF "available_rooms" \notin DOMAIN data
       THEN [file |-> file, ret |-> "KeyError", obj |-> NoObj, log |-> <<>>]
       ELSE [file |-> file, ret |-> "object", obj |-> Hotel_from_dict(data),
             log |-> <<>>]

(* modify_hotel without the max(0, ...) around the new available_rooms *)
modify_hotel_no_clamp(file, hotel_id, name, location, total_rooms, w) ==
  LET hotels == _load_hotels(file) IN
  IF hotel_id \notin DOMAIN hotels
  THEN [file |-> file, ret |-> "False", obj |-> NoObj, log |-> <<>>]
  ELSE LET h0 == hotels[hotel_id]
           h1 == IF Truthy(name) THEN [h0 EXCEPT !.name = name] ELSE h0
           h2 == IF Truthy(location) THEN [h1 EXCEPT !.location = location] ELSE h1
           h3 == IF total_rooms # NoInt
                 THEN LET t == CHOOSE x \in total_rooms : TRUE
                          diff == t - h2.total_rooms
                      IN [h2 EXCEPT !.total_rooms = t,
                                    !.available_rooms = h2.available_rooms + diff]
                 ELSE h2
       IN Returning(w, [file |-> _save_hotels(file, Put(hotels, hotel_id, h3), w),
           ret |-> "True", obj |-> NoObj, log |-> <<"save_hotels:" \o w>>])

(* modify_hotel that also keeps available_rooms at or below the new total *)
modify_hotel_caps(file, hotel_id, name, location, total_rooms, w) ==
  LET hotels == _load_hotels(file) IN
  IF hotel_id \notin DOMAIN hotels
  THEN [file |-> file, ret |-> "False", obj |-> NoObj, log |-> <<>>]
  ELSE LET h0 == hotels[hotel_id]
           h1 == IF Truthy(name) THEN [h0 EXCEPT !.name = name] ELSE h0
           h2 == IF Truthy(location) THEN [h1 EXCEPT !.location = location] ELSE h1
           h3 == IF total_rooms # NoInt
                 THEN LET t == CHOOSE x \in total_rooms : TRUE
                          diff == t - h2.total_rooms
                      IN [h2 EXCEPT !.total_rooms = t,
                                    !.available_rooms =
                                      LET a == Max(0, h2.available_rooms + diff)
                                      IN IF a > t THEN t ELSE a]
                 ELSE h2
       IN Returning(w, [file |-> _save_hotels(file, Put(hotels, hotel_id, h3), w),
           ret |-> "True", obj |-> NoObj, log |-> <<"save_hotels:" \o w>>])

(* total_rooms is a set: {} for None, {t} for the integer t.  Reading      *)
(* ["available_rooms"] of a record without it raises KeyError, here and in *)
(* reserve_room and cancel_room.                                           *)
modify_hotel(file, hotel_id, name, location, total_rooms, w) ==
  LET hotels == _load_hotels(file) IN
  IF hotel_id \notin DOMAIN hotels
  THEN [file |-> file, ret |-> "False", obj |-> NoObj, log |-> <<>>]
  ELSE IF total_rooms # NoInt /\ "available_rooms" \notin DOMAIN hotels[hotel_id]
  THEN [file |-> file, ret |-> "KeyError", obj |-> NoObj, log |-> <<>>]
  ELSE LET h0 == hotels[hotel_id]
           h1 == IF Truthy(name) THEN [h0 EXCEPT !.name = name] ELSE h0
           h2 == IF Truthy(location) THEN [h1 EXCEPT !.location = location] ELSE h1
           h3 == IF total_rooms # NoInt
                 THEN LET t == CHOOSE x \in total_rooms : TRUE
                          diff == t - h2.total_rooms
                      IN [h2 EXCEPT !.total_rooms = t,
                                    !.available_rooms = Max(0, h2.available_rooms + diff)]
                 ELSE h2
       IN Returning(w, [file |-> _save_hotels(file, Put(hotels, hotel_id, h3), w),
           ret |-> "True", obj |-> NoObj, log |-> <<"save_hotels:" \o w>>])

(* reserve_room with the availability test written < 0 *)
reserve_room_off_by_one(file, hotel_id, w) ==
  LET hotels == _load_hotels(file) IN
  IF hotel_id \notin DOMAIN hotels
  THEN [file |-> file, ret |-> "False", obj |-> NoObj, log |-> <<>>]
  ELSE IF hotels[hotel_id].available_rooms < 0
  THEN [file |-> file, ret |-> "False", obj |-> NoObj, log |-> <<>>]
  ELSE LET h == [hotels[hotel_id] EXCEPT !.available_rooms = @ - 1] IN
       Returning(w, [file |-> _save_hotels(file, Put(hotels, hotel_id, h), w),
        ret |-> "True", obj |-> NoObj, log |-> <<"save_hotels:" \o w>>])

reserve_room(file, hotel_id, w) ==
  LET hotels == _load_hotels(file) IN
  IF hotel_id \notin DOMAIN hotels
  THEN [file |-> file, ret |-> "False", obj |-> NoObj, log |-> <<>>]
  ELSE IF "available_rooms" \notin DOMAIN hotels[hotel_id]
  THEN [file |-> file, ret |-> "KeyError", obj |-> NoObj, log |-> <<>>]
  ELSE IF hotels[hotel_id].available_rooms <= 0
  THEN [file |-> file, ret |-> "False", obj |-> NoObj, log |-> <<>>]
  ELSE LET h == [hotels[hotel_id] EXCEPT !.available_rooms = @ - 1] IN
       Returning(w, [file |-> _save_hotels(file, Put(hotels, hotel_id, h), w),
        ret |-> "True", obj |-> NoObj, log |-> <<"save_hotels:" \o w>>])

(* cancel_room that frees every room of the hotel at once *)
cancel_room_frees_all(file, hotel_id, w) ==
  LET hotels == _load_hotels(file) IN
  IF hotel_id \notin DOMAIN hotels
  THEN [file |-> file, ret |-> "False", obj |-> NoObj, log |-> <<>>]
  ELSE LET avail == hotels[hotel_id].available_rooms
           total == hotels[hotel_id].total_rooms
       IN IF avail >= total
          THEN [file |-> file, ret |-> "False", obj |-> NoObj, log |-> <<>>]
          ELSE LET h == [hotels[hotel_id] EXCEPT !.available_rooms = total] IN
               [file |-> _save_hotels(file, Put(hotels, hotel_id, h), w),
                ret |-> "True", obj |-> NoObj, log |-> <<"save_hotels:" \o w>>]

(* cancel_room without the capacity test *)
cancel_room_unguarded(file, hotel_id, w) ==
  LET hotels == _load_hotels(file) IN
  IF hotel_id \notin DOMAIN hotels
  THEN [file |-> file, ret |-> "False", obj |-> NoObj, log |-> <<>>]
  ELSE LET h == [hotels[hotel_id] EXCEPT !.available_rooms = @ + 1] IN
       [file |-> _save_hotels(file, Put(hotels, hotel_id, h), w),
        ret |-> "True", obj |-> NoObj, log |-> <<"save_hotels:" \o w>>]

(* cancel_room with the capacity test written avail > total *)
cancel_room_off_by_one(file, hotel_id, w) ==
  LET hotels == _load_hotels(file) IN
  IF hotel_id \notin DOMAIN hotels
  THEN [file |-> file, ret |-> "False", obj |-> NoObj, log |-> <<>>]
  ELSE LET avail == hotels[hotel_id].available_rooms
           total == hotels[hotel_id].total_rooms
       IN IF avail > total
          THEN [file |-> file, ret |-> "False", obj |-> NoObj, log |-> <<>>]
          ELSE LET h == [hotels[hotel_id] EXCEPT !.available_rooms = @ + 1] IN
               Returning(w, [file |-> _save_hotels(file, Put(hotels, hotel_id, h), w),
                ret |-> "True", obj |-> NoObj, log |-> <<"save_hotels:" \o w>>])

cancel_room(file, hotel_id, w) ==
  LET hotels == _load_hotels(file) IN
  IF hotel_id \notin DOMAIN hotels
  THEN [file |-> file, ret |-> "False", obj |-> NoObj, log |-> <<>>]
  ELSE IF "available_rooms" \notin DOMAIN hotels[hotel_id]
  THEN [file |-> file, ret |-> "KeyError", obj |-> NoObj, log |-> <<>>]
  ELSE LET avail == hotels[hotel_id].available_rooms
           total == hotels[hotel_id].total_rooms
       IN IF avail >= total
          THEN [file |-> file, ret |-> "False", obj |-> NoObj, log |-> <<>>]
          ELSE LET h == [hotels[hotel_id] EXCEPT !.available_rooms = @ + 1] IN
               Returning(w, [file |-> _save_hotels(file, Put(hotels, hotel_id, h), w),
                ret |-> "True", obj |-> NoObj, log |-> <<"save_hotels:" \o w>>])

(* ---------------------------------------------------------------------- *)
(* Customer                                                               *)
(* ---------------------------------------------------------------------- *)
(* Customer.__init__ followed by Customer.to_dict *)
CustomerDict(customer_id, name, email, phone) ==
  [customer_id |-> customer_id, name |-> name, email |-> email, phone |-> phone]

(* Customer.from_dict *)
Customer_from_dict(data) ==
  [customer_id |-> data.customer_id, name |-> data.name, email |-> data.email,
   phone |-> data.phone]

create_customer(file, customer_id, name, email, phone, w) ==
  LET customers == _load_customers(file) IN
  IF customer_id \in DOMAIN customers
  THEN [file |-> file, ret |-> "None", obj |-> NoObj, log |-> <<>>]
  ELSE LET customer == CustomerDict(customer_id, name, email, phone) IN
       Returning(w, [file |-> _save_customers(file, Put(customers, customer_id, customer), w),
        ret |-> "object", obj |-> customer, log |-> <<"save_customers:" \o w>>])

(* delete_customer that writes back an empty dictionary *)
delete_customer_clears(file, customer_id, w) ==
  LET customers == _load_customers(file) IN
  IF customer_id \notin DOMAIN customers
  THEN [file |-> file, ret |-> "False", obj |-> NoObj, log |-> <<>>]
  ELSE Returning(w, [file |-> _save_customers(file, EmptyDict, w),
        ret |-> "True", obj |-> NoObj, log |-> <<"save_customers:" \o w>>])

delete_customer(file, customer_id, w) ==
  LET customers == _load_customers(file) IN
  IF customer_id \notin DOMAIN customers
  THEN [file |-> file, ret |-> "False", obj |-> NoObj, log |-> <<>>]
  ELSE Returning(w, [file |-> _save_customers(file, Del(customers, customer_id), w),
        ret |-> "True", obj |-> NoObj, log |-> <<"save_customers:" \o w>>])

display_customer(file, customer_id) ==
  LET customers == _load_customers(file) IN
  IF customer_id \notin DOMAIN customers
  THEN [file |-> file, ret |-> "None", obj |-> NoObj, log |-> <<>>]
  ELSE [file |-> file, ret |-> "object",
        obj |-> Customer_from_dict(customers[customer_id]), log |-> <<>>]

(* modify_customer with every test written "is not None" *)
modify_customer_is_not_none(file, customer_id, name, email, phone, w) ==
  LET customers == _load_customers(file) IN
  IF customer_id \notin DOMAIN customers
  THEN [file |-> file, ret |-> "False", obj |-> NoObj, log |-> <<>>]
  ELSE LET c0 == customers[customer_id]
           c1 == IF name # NoneStr THEN [c0 EXCEPT !.name = name] ELSE c0
           c2 == IF email # NoneStr THEN [c1 EXCEPT !.email = email] ELSE c1
           c3 == IF phone # NoneStr THEN [c2 EXCEPT !.phone = phone] ELSE c2
       IN Returning(w, [file |-> _save_customers(file, Put(customers, customer_id, c3), w),
           ret |-> "True", obj |-> NoObj, log |-> <<"save_customers:" \o w>>])

modify_customer(file, customer_id, name, email, phone, w) ==
  LET customers == _load_customers(file) IN
  IF customer_id \notin DOMAIN customers
  THEN [file |-> file, ret |-> "False", obj |-> NoObj, log |-> <<>>]
  ELSE LET c0 == customers[customer_id]
           c1 == IF Truthy(name) THEN [c0 EXCEPT !.name = name] ELSE c0
           c2 == IF Truthy(email) THEN [c1 EXCEPT !.email = email] ELSE c1
           c3 == IF Truthy(phone) THEN [c2 EXCEPT !.phone = phone] ELSE c2
       IN Returning(w, [file |-> _save_customers(file, Put(customers, customer_id, c3), w),
           ret |-> "True", obj |-> NoObj, log |-> <<"save_customers:" \o w>>])

(* ---------------------------------------------------------------------- *)
(* Reservation                                                            *)
(* ---------------------------------------------------------------------- *)
(* Reservation.to_dict with check_in and check_out exchanged *)
ReservationDict_swapped(reservation_id, customer_id, hotel_id, check_in, check_out) ==
  [reservation_id |-> reservation_id, customer_id |-> customer_id,
   hotel_id |-> hotel_id, check_in |-> check_out, check_out |-> check_in]

(* Reservation.__init__ followed by Reservation.to_dict *)
ReservationDict(reservation_id, customer_id, hotel_id, check_in, check_out) ==
  [reservation_id |-> reservation_id, customer_id |-> customer_id,
   hotel_id |-> hotel_id, check_in |-> check_in, check_out |-> check_out]

(* Reservation.from_dict *)
Reservation_from_dict(data) ==
  [reservation_id |-> data.reservation_id, customer_id |-> data.customer_id,
   hotel_id |-> data.hotel_id, check_in |-> data.check_in,
   check_out |-> data.check_out]

(* The reservation operations read the customers file, call into Hotel     *)
(* and rewrite the reservations file: their result carries both the hotels *)
(* file and the reservations file afterwards.  newId is the value of       *)
(* str(uuid.uuid4())[:8]; wh and wr are the outcomes of the two writes.    *)
(* create_reservation that returns None when the new id is already a key   *)
(* of the reservations dictionary                                          *)
create_reservation_checks_id(cfile, hfile, rfile, customer_id, hotel_id, check_in, check_out, newId, wh, wr) ==
  LET customers == _load_customers(cfile)
      hotels == _load_hotels(hfile)
      fail == [hotels |-> hfile, reservations |-> rfile,
               ret |-> "None", obj |-> NoObj, log |-> <<>>]
  IN
  IF customer_id \notin DOMAIN customers THEN fail
  ELSE IF hotel_id \notin DOMAIN hotels THEN fail
  ELSE IF newId \in DOMAIN _load_reservations(rfile) THEN fail
  ELSE LET rr == reserve_room(hfile, hotel_id, wh) IN
       IF rr.ret # "True"
       THEN [fail EXCEPT !.hotels = rr.file,
                         !.log = <<"Hotel.reserve_room">> \o rr.log]
       ELSE LET reservation == ReservationDict(newId, customer_id, hotel_id,
                                               check_in, check_out)
                reservations == _load_reservations(rfile)
            IN [hotels |-> rr.file,
                reservations |-> _save_reservations(rfile,
                                   Put(reservations, newId, reservation), wr),
                ret |-> "object", obj |-> reservation,
                log |-> <<"Hotel.reserve_room">> \o rr.log
                          \o <<"save_reservations:" \o wr>>]

(* create_reservation that does not look at what Hotel.reserve_room returned *)
create_reservation_ignores_refusal(cfile, hfile, rfile, customer_id, hotel_id, check_in, check_out, newId, wh, wr) ==
  LET customers == _load_customers(cfile)
      hotels == _load_hotels(hfile)
      fail == [hotels |-> hfile, reservations |-> rfile,
               ret |-> "None", obj |-> NoObj, log |-> <<>>]
  IN
  IF customer_id \notin DOMAIN customers THEN fail
  ELSE IF hotel_id \notin DOMAIN hotels THEN fail
  ELSE LET rr == reserve_room(hfile, hotel_id, wh)
           reservation == ReservationDict(newId, customer_id, hotel_id,
                                          check_in, check_out)
           reservations == _load_reservations(rfile)
       IN [hotels |-> rr.file,
           reservations |-> _save_reservations(rfile,
                              Put(reservations, newId, reservation), wr),
           ret |-> "object", obj |-> reservation,
           log |-> <<"Hotel.reserve_room">> \o rr.log
                     \o <<"save_reservations:" \o wr>>]

(* create_reservation without the customer lookup *)
create_reservation_any_customer(cfile, hfile, rfile, customer_id, hotel_id, check_in, check_out, newId, wh, wr) ==
  LET hotels == _load_hotels(hfile)
      fail == [hotels |-> hfile, reservations |-> rfile,
               ret |-> "None", obj |-> NoObj, log |-> <<>>]
  IN
  IF hotel_id \notin DOMAIN hotels THEN fail
  ELSE LET rr == reserve_room(hfile, hotel_id, wh) IN
       IF rr.ret # "True"
       THEN [fail EXCEPT !.hotels = rr.file,
                         !.log = <<"Hotel.reserve_room">> \o rr.log]
       ELSE LET reservation == ReservationDict(newId, customer_id, hotel_id,
                                               check_in, check_out)
                reservations == _load_reservations(rfile)
            IN [hotels |-> rr.file,
                reservations |-> _save_reservations(rfile,
                                   Put(reservations, newId, reservation), wr),
                ret |-> "object", obj |-> reservation,
                log |-> <<"Hotel.reserve_room">> \o rr.log
                          \o <<"save_reservations:" \o wr>>]

(* create_reservation that writes the record first and reserves the room   *)
(* afterwards                                                              *)
create_reservation_record_first(cfile, hfile, rfile, customer_id, hotel_id, check_in, check_out, newId, wh, wr) ==
  LET customers == _load_customers(cfile)
      hotels == _load_hotels(hfile)
      fail == [hotels |-> hfile, reservations |-> rfile,
               ret |-> "None", obj |-> NoObj, log |-> <<>>]
  IN
  IF customer_id \notin DOMAIN customers THEN fail
  ELSE IF hotel_id \notin DOMAIN hotels THEN fail
  ELSE IF hotels[hotel_id].available_rooms <= 0 THEN fail
  ELSE LET reservation == ReservationDict(newId, customer_id, hotel_id,
                                          check_in, check_out)
           reservations == _load_reservations(rfile)
           saved == _save_reservations(rfile,
                      Put(reservations, newId, reservation), wr)
           rr == reserve_room(hfile, hotel_id, wh)
       IN [hotels |-> rr.file, reservations |-> saved,
           ret |-> "object", obj |-> reservation,
           log |-> <<"save_reservations:" \o wr, "Hotel.reserve_room">> \o rr.log]

create_reservation(cfile, hfile, rfile, customer_id, hotel_id, check_in, check_out, newId, wh, wr) ==
  LET customers == res_load_customers(cfile)
      hotels == res_load_hotels(hfile)
      fail == [hotels |-> hfile, reservations |-> rfile,
               ret |-> "None", obj |-> NoObj, log |-> <<>>]
  IN
  IF In(customer_id, customers) = "TypeError" THEN [fail EXCEPT !.ret = "TypeError"]
  ELSE IF In(customer_id, customers) = "False" THEN fail
  ELSE IF In(hotel_id, hotels) = "TypeError" THEN [fail EXCEPT !.ret = "TypeError"]
  ELSE IF In(hotel_id, hotels) = "False" THEN fail
  ELSE LET rr == reserve_room(hfile, hotel_id, wh) IN
       IF rr.ret \in Exceptions
       THEN [fail EXCEPT !.ret = rr.ret,
                         !.log = <<"Hotel.reserve_room">> \o rr.log]
       ELSE IF rr.ret # "True"
       THEN [fail EXCEPT !.hotels = rr.file,
                         !.log = <<"Hotel.reserve_room">> \o rr.log]
       ELSE LET reservation == ReservationDict(newId, customer_id, hotel_id,
                                               check_in, check_out)
                reservations == _load_reservations(rfile)
            IN Returning(wr,
                 [hotels |-> rr.file,
                  reservations |-> _save_reservations(rfile,
                                     Put(reservations, newId, reservation), wr),
                  ret |-> "object", obj |-> reservation,
                  log |-> <<"Hotel.reserve_room">> \o rr.log
                            \o <<"save_reservations:" \o wr>>])

(* cancel_reservation that first looks the hotel of the record up and      *)
(* returns False when it is not stored                                     *)
cancel_reservation_needs_hotel(hfile, rfile, reservation_id, wh, wr) ==
  LET reservations == _load_reservations(rfile)
      unknown == [hotels |-> hfile, reservations |-> rfile,
                  ret |-> "False", obj |-> NoObj, log |-> <<>>]
  IN
  IF reservation_id \notin DOMAIN reservations THEN unknown
  ELSE IF reservations[reservation_id].hotel_id \notin DOMAIN _load_hotels(hfile)
  THEN unknown
  ELSE LET hotel_id == reservations[reservation_id].hotel_id
           cr == cancel_room(hfile, hotel_id, wh)
       IN [hotels |-> cr.file,
           reservations |-> _save_reservations(rfile,
                              Del(reservations, reservation_id), wr),
           ret |-> "True", obj |-> NoObj,
           log |-> <<"Hotel.cancel_room:" \o cr.ret>> \o cr.log
                     \o <<"save_reservations:" \o wr>>]

(* cancel_reservation that gives up when Hotel.cancel_room refuses *)
cancel_reservation_escalates(hfile, rfile, reservation_id, wh, wr) ==
  LET reservations == _load_reservations(rfile) IN
  IF reservation_id \notin DOMAIN reservations
  THEN [hotels |-> hfile, reservations |-> rfile,
        ret |-> "False", obj |-> NoObj, log |-> <<>>]
  ELSE LET hotel_id == reservations[reservation_id].hotel_id
           cr == cancel_room(hfile, hotel_id, wh)
       IN IF cr.ret # "True"
          THEN [hotels |-> cr.file, reservations |-> rfile,
                ret |-> "False", obj |-> NoObj,
                log |-> <<"Hotel.cancel_room:" \o cr.ret>> \o cr.log]
          ELSE [hotels |-> cr.file,
                reservations |-> _save_reservations(rfile,
                                   Del(reservations, reservation_id), wr),
                ret |-> "True", obj |-> NoObj,
                log |-> <<"Hotel.cancel_room:" \o cr.ret>> \o cr.log
                          \o <<"save_reservations:" \o wr>>]

cancel_reservation(hfile, rfile, reservation_id, wh, wr) ==
  LET reservations == _load_reservations(rfile) IN
  IF reservation_id \notin DOMAIN reservations
  THEN [hotels |-> hfile, reservations |-> rfile,
        ret |-> "False", obj |-> NoObj, log |-> <<>>]
  ELSE LET hotel_id == reservations[reservation_id].hotel_id
           cr == cancel_room(hfile, hotel_id, wh)
       IN IF cr.ret \in Exceptions
          THEN [hotels |-> hfile, reservations |-> rfile,
                ret |-> cr.ret, obj |-> NoObj,
                log |-> <<"Hotel.cancel_room:" \o cr.ret>> \o cr.log]
          ELSE Returning(wr,
                 [hotels |-> cr.file,
                  reservations |-> _save_reservations(rfile,
                                     Del(reservations, reservation_id), wr),
                  ret |-> "True", obj |-> NoObj,
                  log |-> <<"Hotel.cancel_room:" \o cr.ret>> \o cr.log
                            \o <<"save_reservations:" \o wr>>])

display_reservation(rfile, reservation_id) ==
  LET reservations == _load_reservations(rfile) IN
  IF reservation_id \notin DOMAIN reservations
  THEN [file |-> rfile, ret |-> "None", obj |-> NoObj, log |-> <<>>]
  ELSE [file |-> rfile, ret |-> "object",
        obj |-> Reservation_from_dict(reservations[reservation_id]), log |-> <<>>]

(* ---------------------------------------------------------------------- *)
(* One action per public operation                                        *)
(* ---------------------------------------------------------------------- *)
NoArgs == [cid |-> "-", hid |-> "-", rid |-> "-", s1 |-> "-", s2 |-> "-",
           s3 |-> "-", rooms |-> {}]

(* The record kept in last: the operation, its arguments, what it returned *)
(* and, in follows, the call just before it when that call created or      *)
(* cancelled a reservation ("-" otherwise); in before, the stored record   *)
(* that a modify_hotel call found (no element otherwise).                  *)
NoFollows == [op |-> "-", rid |-> "-"]

Before(op, args) ==
  IF op = "modify_hotel" /\ args.hid \in DOMAIN _load_hotels(hotelsFile)
  THEN {_load_hotels(hotelsFile)[args.hid]} ELSE {}

Call(op, args, r) ==
  [op |-> op, args |-> args, ret |-> r.ret, obj |-> r.obj, log |-> r.log,
   before |-> Before(op, args),
   follows |-> IF \/ last.op = "create_reservation" /\ last.ret = "object"
                  \/ last.op = "cancel_reservation" /\ last.ret = "True"
               THEN [op |-> last.op, rid |-> last.args.rid] ELSE NoFollows]

CreateHotel(h, name, location, t, w) ==
  LET r == create_hotel(hotelsFile, h, name, location, t, w) IN
  /\ hotelsFile' = r.file
  /\ last' = Call("create_hotel",
                  [NoArgs EXCEPT !.hid = h, !.s1 = name, !.s2 = location,
                                 !.rooms = {t}], r)
  /\ UNCHANGED <<customersFile, reservationsFile, raceVars>>

DeleteHotel(h, w) ==
  LET r == delete_hotel(hotelsFile, h, w) IN
  /\ hotelsFile' = r.file
  /\ last' = Call("delete_hotel", [NoArgs EXCEPT !.hid = h], r)
  /\ UNCHANGED <<customersFile, reservationsFile, raceVars>>

DisplayHotel(h) ==
  LET r == display_hotel(hotelsFile, h) IN
  /\ hotelsFile' = r.file
  /\ last' = Call("display_hotel", [NoArgs EXCEPT !.hid = h], r)
  /\ UNCHANGED <<customersFile, reservationsFile, raceVars>>

ModifyHotel(h, name, location, total, w) ==
  LET r == modify_hotel(hotelsFile, h, name, location, total, w) IN
  /\ hotelsFile' = r.file
  /\ last' = Call("modify_hotel",
                  [NoArgs EXCEPT !.hid = h, !.s1 = name, !.s2 = location,
                                 !.rooms = total], r)
  /\ UNCHANGED <<customersFile, reservationsFile, raceVars>>

ReserveRoom(h, w) ==
  LET r == reserve_room(hotelsFile, h, w) IN
  /\ hotelsFile' = r.file
  /\ last' = Call("reserve_room", [NoArgs EXCEPT !.hid = h], r)
  /\ UNCHANGED <<customersFile, reservationsFile, raceVars>>

CancelRoom(h, w) ==
  LET r == cancel_room(hotelsFile, h, w) IN
  /\ hotelsFile' = r.file
  /\ last' = Call("cancel_room", [NoArgs EXCEPT !.hid = h], r)
  /\ UNCHANGED <<customersFile, reservationsFile, raceVars>>

CreateCustomer(c, name, email, phone, w) ==
  LET r == create_customer(customersFile, c, name, email, phone, w) IN
  /\ customersFile' = r.file
  /\ last' = Call("create_customer",
                  [NoArgs EXCEPT !.cid = c, !.s1 = name, !.s2 = email,
                                 !.s3 = phone], r)
  /\ UNCHANGED <<hotelsFile, reservationsFile, raceVars>>

DeleteCustomer(c, w) ==
  LET r == delete_customer(customersFile, c, w) IN
  /\ customersFile' = r.file
  /\ last' = Call("delete_customer", [NoArgs EXCEPT !.cid = c], r)
  /\ UNCHANGED <<hotelsFile, reservationsFile, raceVars>>

DisplayCustomer(c) ==
  LET r == display_customer(customersFile, c) IN
  /\ customersFile' = r.file
  /\ last' = Call("display_customer", [NoArgs EXCEPT !.cid = c], r)
  /\ UNCHANGED <<hotelsFile, reservationsFile, raceVars>>

ModifyCustomer(c, name, email, phone, w) ==
  LET r == modify_customer(customersFile, c, name, email, phone, w) IN
  /\ customersFile' = r.file
  /\ last' = Call("modify_customer",
                  [NoArgs EXCEPT !.cid = c, !.s1 = name, !.s2 = email,
                                 !.s3 = phone], r)
  /\ UNCHANGED <<hotelsFile, reservationsFile, raceVars>>

CreateReservation(c, h, check_in, check_out, newId, wh, wr) ==
  LET r == create_reservation(customersFile, hotelsFile, reservationsFile,
                              c, h, check_in, check_out, newId, wh, wr) IN
  /\ hotelsFile' = r.hotels
  /\ reservationsFile' = r.reservations
  /\ last' = Call("create_reservation",
                  [NoArgs EXCEPT !.cid = c, !.hid = h, !.s1 = check_in,
                                 !.s2 = check_out,
                                 !.rid = IF r.ret = "object" THEN newId ELSE "-"], r)
  /\ UNCHANGED <<customersFile, raceVars>>

CancelReservation(rid, wh, wr) ==
  LET r == cancel_reservation(hotelsFile, reservationsFile, rid, wh, wr) IN
  /\ hotelsFile' = r.hotels
  /\ reservationsFile' = r.reservations
  /\ last' = Call("cancel_reservation", [NoArgs EXCEPT !.rid = rid], r)
  /\ UNCHANGED <<customersFile, raceVars>>

(* Text put into one of the files from outside the stores, as the tests do *)
NoResult == [ret |-> "-", obj |-> NoObj, log |-> <<>>]

WriteHotelsFile(content) ==
  /\ hotelsFile' = content
  /\ last' = Call("write_hotels_file", NoArgs, NoResult)
  /\ UNCHANGED <<customersFile, reservationsFile, raceVars>>

WriteCustomersFile(content) ==
  /\ customersFile' = content
  /\ last' = Call("write_customers_file", NoArgs, NoResult)
  /\ UNCHANGED <<hotelsFile, reservationsFile, raceVars>>

WriteReservationsFile(content) ==
  /\ reservationsFile' = content
  /\ last' = Call("write_reservations_file", NoArgs, NoResult)
  /\ UNCHANGED <<hotelsFile, customersFile, raceVars>>

DisplayReservation(rid) ==
  LET r == display_reservation(reservationsFile, rid) IN
  /\ reservationsFile' = r.file
  /\ last' = Call("display_reservation", [NoArgs EXCEPT !.rid = rid], r)
  /\ UNCHANGED <<hotelsFile, customersFile, raceVars>>

(* ---------------------------------------------------------------------- *)
(* Initial state: no data file exists, nothing has been called            *)
(* ---------------------------------------------------------------------- *)
NoCall == [op |-> "-", args |-> NoArgs, ret |-> "-", obj |-> NoObj,
           log |-> <<>>, before |-> {}, follows |-> NoFollows]

RaceIdle ==
  /\ pc = [p \in Procs |-> "idle"]
  /\ local = [p \in Procs |-> EmptyDict]
  /\ target = [p \in Procs |-> "-"]
  /\ result = [p \in Procs |-> <<>>]
  /\ overlapped = FALSE
  /\ initial = EmptyDict

Init ==
  /\ hotelsFile = MissingFile
  /\ customersFile = MissingFile
  /\ reservationsFile = MissingFile
  /\ last = NoCall
  /\ RaceIdle

(* ---------------------------------------------------------------------- *)
(* The reservation protocol alone, every write succeeding                 *)
(* ---------------------------------------------------------------------- *)
NextProtocol ==
  \/ \E h \in HotelIds, t \in Rooms : CreateHotel(h, "a", "a", t, "ok")
  \/ \E c \in CustomerIds : CreateCustomer(c, "a", "a", "a", "ok")
  \/ \E c \in CustomerIds, h \in HotelIds, newId \in ReservationIds :
       CreateReservation(c, h, "d1", "d2", newId, "ok", "ok")
  \/ \E rid \in ReservationIds : CancelReservation(rid, "ok", "ok")

SpecProtocol == Init /\ [][NextProtocol]_vars

(* ---------------------------------------------------------------------- *)
(* A single sequential caller changing all three stores, every write      *)
(* succeeding                                                             *)
(* ---------------------------------------------------------------------- *)
OptRooms == {NoInt} \cup {{t} : t \in Rooms}

(* Only the customers of Registered are ever created here, so that a       *)
(* customer_id without a record is at hand in every state.                 *)
Registered == {"C1"}

Next ==
  \/ \E h \in HotelIds, t \in Rooms : CreateHotel(h, "a", "a", t, "ok")
  \/ \E h \in HotelIds : DeleteHotel(h, "ok")
  \/ \E h \in HotelIds, total \in OptRooms :
       ModifyHotel(h, NoneStr, NoneStr, total, "ok")
  \/ \E h \in HotelIds : ReserveRoom(h, "ok")
  \/ \E h \in HotelIds : CancelRoom(h, "ok")
  \/ \E c \in Registered : CreateCustomer(c, "a", "a", "a", "ok")
  \/ \E c \in Registered : DeleteCustomer(c, "ok")
  \/ \E c \in CustomerIds, h \in HotelIds, newId \in ReservationIds :
       CreateReservation(c, h, "d1", "d2", newId, "ok", "ok")
  \/ \E rid \in ReservationIds : CancelReservation(rid, "ok", "ok")

Spec == Init /\ [][Next]_vars

(* ---------------------------------------------------------------------- *)
(* Deleting, modifying and cancelling under ids that may not be stored:    *)
(* only the hotel of Booked and the customer of Registered are ever        *)
(* created.                                                                *)
(* ---------------------------------------------------------------------- *)
Booked == {"H1"}

NextAbsentIds ==
  \/ \E h \in Booked, t \in Rooms : CreateHotel(h, "a", "a", t, "ok")
  \/ \E h \in HotelIds : DeleteHotel(h, "ok")
  \/ \E h \in HotelIds, total \in OptRooms :
       ModifyHotel(h, NoneStr, NoneStr, total, "ok")
  \/ \E c \in Registered : CreateCustomer(c, "a", "a", "a", "ok")
  \/ \E c \in CustomerIds : DeleteCustomer(c, "ok")
  \/ \E c \in CustomerIds, name \in {NoneStr, "b"} :
       ModifyCustomer(c, name, NoneStr, NoneStr, "ok")
  \/ \E c \in Registered, h \in Booked, newId \in ReservationIds :
       CreateReservation(c, h, "d1", "d2", newId, "ok", "ok")
  \/ \E rid \in ReservationIds : CancelReservation(rid, "ok", "ok")

SpecAbsentIds == Init /\ [][NextAbsentIds]_vars

(* ---------------------------------------------------------------------- *)
(* The hotel store alone                                                  *)
(* ---------------------------------------------------------------------- *)
RoomInputs == (-1)..MaxRooms

(* Two argument tuples that differ in every field *)
FieldValues == {<<"a", "a", "a">>, <<"b", "b", "b">>}

NextHotel ==
  \/ \E h \in HotelIds, f \in FieldValues, t \in RoomInputs :
       CreateHotel(h, f[1], f[2], t, "ok")
  \/ \E h \in HotelIds : DeleteHotel(h, "ok")
  \/ \E h \in HotelIds : DisplayHotel(h)
  \/ \E h \in HotelIds, name \in {NoneStr, "b"},
        total \in {NoInt} \cup {{t} : t \in RoomInputs} :
       ModifyHotel(h, name, NoneStr, total, "ok")
  \/ \E h \in HotelIds : ReserveRoom(h, "ok")
  \/ \E h \in HotelIds : CancelRoom(h, "ok")

SpecHotel == Init /\ [][NextHotel]_vars

(* ---------------------------------------------------------------------- *)
(* The customer store alone                                               *)
(* ---------------------------------------------------------------------- *)
(* An optional string argument: omitted, empty or a value *)
OptStrings == {NoneStr, "", "c"}

NextCustomer ==
  \/ \E c \in CustomerIds, f \in FieldValues :
       CreateCustomer(c, f[1], f[2], f[3], "ok")
  \/ \E c \in CustomerIds : DeleteCustomer(c, "ok")
  \/ \E c \in CustomerIds : DisplayCustomer(c)
  \/ \E c \in CustomerIds, name \in OptStrings, email \in OptStrings,
        phone \in OptStrings :
       ModifyCustomer(c, name, email, phone, "ok")

SpecCustomer == Init /\ [][NextCustomer]_vars

(* ---------------------------------------------------------------------- *)
(* Creation and deletion in the customer and hotel stores                 *)
(* ---------------------------------------------------------------------- *)

NextCrud ==
  \/ \E h \in HotelIds, f \in FieldValues, t \in Rooms :
       CreateHotel(h, f[1], f[2], t, "ok")
  \/ \E h \in HotelIds : DeleteHotel(h, "ok")
  \/ \E h \in HotelIds : ReserveRoom(h, "ok")
  \/ \E c \in CustomerIds, f \in FieldValues :
       CreateCustomer(c, f[1], f[2], f[3], "ok")
  \/ \E c \in CustomerIds : DeleteCustomer(c, "ok")

SpecCrud == Init /\ [][NextCrud]_vars

(* ---------------------------------------------------------------------- *)
(* The reservation protocol when a write may fail                         *)
(* ---------------------------------------------------------------------- *)
NextWriteFaults ==
  \/ \E h \in HotelIds, t \in Rooms, w \in SaveOutcomes :
       CreateHotel(h, "a", "a", t, w)
  \/ \E c \in Registered, w \in SaveOutcomes : CreateCustomer(c, "a", "a", "a", w)
  \/ \E c \in CustomerIds, h \in HotelIds, newId \in ReservationIds,
        wh \in SaveOutcomes, wr \in SaveOutcomes :
       CreateReservation(c, h, "d1", "d2", newId, wh, wr)
  \/ \E rid \in ReservationIds, wh \in SaveOutcomes, wr \in SaveOutcomes :
       CancelReservation(rid, wh, wr)

SpecWriteFaults == Init /\ [][NextWriteFaults]_vars

(* ---------------------------------------------------------------------- *)
(* Every operation that saves, when a save may fail.  os.makedirs can      *)
(* raise only while the data directory does not exist, and then none of    *)
(* the three files exists.                                                 *)
(* ---------------------------------------------------------------------- *)
NoDataDirectory ==
  /\ hotelsFile = MissingFile
  /\ customersFile = MissingFile
  /\ reservationsFile = MissingFile

MayFail(w) == w \in SaveOutcomes \/ (w = "raises" /\ NoDataDirectory)

NextSaveFaults ==
  \/ \E h \in Booked, t \in Rooms, w \in SaveFaults :
       MayFail(w) /\ CreateHotel(h, "a", "a", t, w)
  \/ \E h \in Booked, w \in SaveFaults : MayFail(w) /\ DeleteHotel(h, w)
  \/ \E h \in Booked, total \in OptRooms, w \in SaveFaults :
       MayFail(w) /\ ModifyHotel(h, NoneStr, NoneStr, total, w)
  \/ \E h \in Booked, w \in SaveFaults : MayFail(w) /\ ReserveRoom(h, w)
  \/ \E h \in Booked, w \in SaveFaults : MayFail(w) /\ CancelRoom(h, w)
  \/ \E c \in Registered, w \in SaveFaults :
       MayFail(w) /\ CreateCustomer(c, "a", "a", "a", w)
  \/ \E c \in Registered, w \in SaveFaults : MayFail(w) /\ DeleteCustomer(c, w)
  \/ \E c \in Registered, w \in SaveFaults :
       MayFail(w) /\ ModifyCustomer(c, "b", NoneStr, NoneStr, w)
  \/ \E c \in Registered, h \in Booked, wh \in SaveFaults, wr \in SaveFaults :
       MayFail(wh) /\ MayFail(wr) /\ CreateReservation(c, h, "d1", "d2", "r1", wh, wr)
  \/ \E wh \in SaveFaults, wr \in SaveFaults :
       MayFail(wh) /\ MayFail(wr) /\ CancelReservation("r1", wh, wr)

SpecSaveFaults == Init /\ [][NextSaveFaults]_vars

(* ---------------------------------------------------------------------- *)
(* The stores over files that something else has written: text that does   *)
(* not decode, a JSON list, a JSON number                                  *)
(* ---------------------------------------------------------------------- *)
ForeignContents ==
  {GarbledFile, ListFile({"not", "a", "dict"}), ListFile({"C1", "H1"}), NumberFile}

NextForeignFiles ==
  \/ \E h \in Booked, t \in Rooms : CreateHotel(h, "a", "a", t, "ok")
  \/ \E h \in Booked : DisplayHotel(h)
  \/ \E h \in Booked : ReserveRoom(h, "ok")
  \/ \E c \in Registered : CreateCustomer(c, "a", "a", "a", "ok")
  \/ \E c \in Registered : DisplayCustomer(c)
  \/ \E c \in CustomerIds, h \in HotelIds :
       CreateReservation(c, h, "d1", "d2", "r1", "ok", "ok")
  \/ CancelReservation("r1", "ok", "ok")
  \/ DisplayReservation("r1")
  \/ \E content \in ForeignContents : WriteHotelsFile(content)
  \/ \E content \in ForeignContents : WriteCustomersFile(content)
  \/ \E content \in ForeignContents : WriteReservationsFile(content)

SpecForeignFiles == Init /\ [][NextForeignFiles]_vars

(* ---------------------------------------------------------------------- *)
(* The hotel store over a file in which records have no available_rooms    *)
(* ---------------------------------------------------------------------- *)
(* A record as Hotel.from_dict accepts it: the four other fields only *)
LegacyHotelDict(hotel_id, name, location, total_rooms) ==
  [hotel_id |-> hotel_id, name |-> name, location |-> location,
   total_rooms |-> total_rooms]

LegacyFiles ==
  {DictFile(Put(EmptyDict, h, LegacyHotelDict(h, "a", "a", t))) :
     h \in HotelIds, t \in 1..MaxRooms}

NextLegacy ==
  \/ \E content \in LegacyFiles : WriteHotelsFile(content)
  \/ \E h \in HotelIds, t \in Rooms : CreateHotel(h, "a", "a", t, "ok")
  \/ \E h \in HotelIds : DeleteHotel(h, "ok")
  \/ \E h \in HotelIds : DisplayHotel(h)
  \/ \E h \in HotelIds, name \in {NoneStr, "b"}, total \in OptRooms :
       ModifyHotel(h, name, NoneStr, total, "ok")
  \/ \E h \in HotelIds : ReserveRoom(h, "ok")
  \/ \E h \in HotelIds : CancelRoom(h, "ok")

SpecLegacy == Init /\ [][NextLegacy]_vars

(* ---------------------------------------------------------------------- *)
(* Every public operation of the three stores, over one hotel, one         *)
(* customer and one reservation id, with writes that may fail inside the   *)
(* try                                                                     *)
(* ---------------------------------------------------------------------- *)
NextAllOps ==
  \/ \E h \in Booked, t \in Rooms, w \in SaveOutcomes : CreateHotel(h, "a", "a", t, w)
  \/ \E h \in Booked, w \in SaveOutcomes : DeleteHotel(h, w)
  \/ \E h \in Booked : DisplayHotel(h)
  \/ \E h \in Booked, total \in OptRooms, w \in SaveOutcomes :
       ModifyHotel(h, NoneStr, NoneStr, total, w)
  \/ \E h \in Booked, w \in SaveOutcomes : ReserveRoom(h, w)
  \/ \E h \in Booked, w \in SaveOutcomes : CancelRoom(h, w)
  \/ \E c \in Registered, w \in SaveOutcomes : CreateCustomer(c, "a", "a", "a", w)
  \/ \E c \in Registered, w \in SaveOutcomes : DeleteCustomer(c, w)
  \/ \E c \in Registered : DisplayCustomer(c)
  \/ \E c \in Registered, w \in SaveOutcomes :
       ModifyCustomer(c, "b", NoneStr, NoneStr, w)
  \/ \E c \in Registered, h \in Booked, wh \in SaveOutcomes, wr \in SaveOutcomes :
       CreateReservation(c, h, "d1", "d2", "r1", wh, wr)
  \/ \E wh \in SaveOutcomes, wr \in SaveOutcomes : CancelReservation("r1", wh, wr)
  \/ DisplayReservation("r1")

SpecAllOps == Init /\ [][NextAllOps]_vars

(* ---------------------------------------------------------------------- *)
(* Two callers of Hotel.reserve_room whose loads, tests and saves          *)
(* interleave: nothing locks data/hotels.json between _load_hotels and     *)
(* _save_hotels.                                                           *)
(* ---------------------------------------------------------------------- *)
(* hotels.json holds H1 with some of its rooms free; H2 is not stored *)
InitRace ==
  /\ \E a \in Rooms :
       /\ initial = [h \in {"H1"} |->
                       [HotelDict("H1", "a", "a", MaxRooms) EXCEPT !.available_rooms = a]]
       /\ hotelsFile = DictFile(initial)
  /\ customersFile = MissingFile
  /\ reservationsFile = MissingFile
  /\ last = NoCall
  /\ pc = [p \in Procs |-> "idle"]
  /\ local = [p \in Procs |-> EmptyDict]
  /\ target = [p \in Procs |-> "-"]
  /\ result = [p \in Procs |-> <<>>]
  /\ overlapped = FALSE

(* hotels = _load_hotels() *)
RaceLoad(p, h) ==
  /\ pc[p] = "idle"
  /\ Len(result[p]) < MaxCalls
  /\ local' = [local EXCEPT ![p] = _load_hotels(hotelsFile)]
  /\ target' = [target EXCEPT ![p] = h]
  /\ pc' = [pc EXCEPT ![p] = "test"]
  /\ overlapped' = (overlapped \/ \E q \in Procs \ {p} : pc[q] # "idle")
  /\ UNCHANGED <<files, last, result, initial>>

(* the two tests and the decrement of the loaded dictionary; a refused     *)
(* call returns False here                                                 *)
RaceTest_off_by_one(p) ==
  /\ pc[p] = "test"
  /\ IF target[p] \notin DOMAIN local[p]
     THEN /\ result' = [result EXCEPT ![p] = Append(@, "False")]
          /\ pc' = [pc EXCEPT ![p] = "idle"]
          /\ UNCHANGED local
     ELSE IF local[p][target[p]].available_rooms < 0
     THEN /\ result' = [result EXCEPT ![p] = Append(@, "False")]
          /\ pc' = [pc EXCEPT ![p] = "idle"]
          /\ UNCHANGED local
     ELSE /\ local' = [local EXCEPT ![p][target[p]].available_rooms = @ - 1]
          /\ pc' = [pc EXCEPT ![p] = "save"]
          /\ UNCHANGED result
  /\ UNCHANGED <<files, last, target, overlapped, initial>>

RaceTest(p) ==
  /\ pc[p] = "test"
  /\ IF target[p] \notin DOMAIN local[p]
     THEN /\ result' = [result EXCEPT ![p] = Append(@, "False")]
          /\ pc' = [pc EXCEPT ![p] = "idle"]
          /\ UNCHANGED local
     ELSE IF local[p][target[p]].available_rooms <= 0
     THEN /\ result' = [result EXCEPT ![p] = Append(@, "False")]
          /\ pc' = [pc EXCEPT ![p] = "idle"]
          /\ UNCHANGED local
     ELSE /\ local' = [local EXCEPT ![p][target[p]].available_rooms = @ - 1]
          /\ pc' = [pc EXCEPT ![p] = "save"]
          /\ UNCHANGED result
  /\ UNCHANGED <<files, last, target, overlapped, initial>>

(* _save_hotels(hotels); return True *)
RaceSave(p) ==
  /\ pc[p] = "save"
  /\ hotelsFile' = _save_hotels(hotelsFile, local[p], "ok")
  /\ result' = [result EXCEPT ![p] = Append(@, "True")]
  /\ pc' = [pc EXCEPT ![p] = "idle"]
  /\ UNCHANGED <<customersFile, reservationsFile, last, local, target,
                 overlapped, initial>>

NextRace ==
  \/ \E p \in Procs, h \in HotelIds : RaceLoad(p, h)
  \/ \E p \in Procs : RaceTest(p)
  \/ \E p \in Procs : RaceSave(p)

SpecRace == InitRace /\ [][NextRace]_vars

(* ---------------------------------------------------------------------- *)
(* Creation in the three stores, with arguments that differ in every      *)
(* field from one call to the other                                       *)
(* ---------------------------------------------------------------------- *)
DatePairs == {<<"d1", "d2">>, <<"d2", "d1">>}

NextCreate ==
  \/ \E h \in HotelIds, f \in FieldValues, t \in Rooms :
       CreateHotel(h, f[1], f[2], t, "ok")
  \/ \E c \in Registered, f \in FieldValues :
       CreateCustomer(c, f[1], f[2], f[3], "ok")
  \/ \E c \in CustomerIds, h \in HotelIds, d \in DatePairs :
       CreateReservation(c, h, d[1], d[2], "r1", "ok", "ok")

SpecCreate == Init /\ [][NextCreate]_vars

(* ====================================================================== *)
(* Properties                                                             *)
(* ====================================================================== *)
(* The dictionaries a caller would load in the current state *)
Hotels == _load_hotels(hotelsFile)
Customers == _load_customers(customersFile)
Reservations == _load_reservations(reservationsFile)

LiveReservations(h) == {r \in DOMAIN Reservations : Reservations[r].hotel_id = h}

(* C1: under the reservation protocol alone (create_hotel, create_customer, *)
(* create_reservation, cancel_reservation, every write succeeding) each    *)
(* stored hotel has total_rooms - available_rooms equal to the number of   *)
(* reservation records that name it.                                       *)
C1_RoomsInUseEqualLiveReservations ==
  \A h \in DOMAIN Hotels :
    Hotels[h].total_rooms - Hotels[h].available_rooms
      = Cardinality(LiveReservations(h))

(* C2: reserve_room on an existing hotel with available_rooms = n > 0      *)
(* returns True and leaves available_rooms = n - 1; with available_rooms   *)
(* = 0, or with an absent hotel id, it returns False and the hotels        *)
(* snapshot is unchanged.                                                  *)
C2_ReserveRoomContract ==
  [][last'.op = "reserve_room" =>
       LET h == last'.args.hid IN
       /\ (h \in DOMAIN Hotels /\ Hotels[h].available_rooms > 0) =>
            /\ last'.ret = "True"
            /\ h \in DOMAIN Hotels'
            /\ Hotels'[h].available_rooms = Hotels[h].available_rooms - 1
       /\ (h \in DOMAIN Hotels /\ Hotels[h].available_rooms = 0) =>
            /\ last'.ret = "False"
            /\ hotelsFile' = hotelsFile
       /\ h \notin DOMAIN Hotels =>
            /\ last'.ret = "False"
            /\ hotelsFile' = hotelsFile]_vars

(* reserve_room took the last free room of a hotel *)
C2_Witness ==
  /\ last.op = "reserve_room"
  /\ last.ret = "True"
  /\ last.args.hid \in DOMAIN Hotels
  /\ Hotels[last.args.hid].available_rooms = 0
  /\ Hotels[last.args.hid].total_rooms > 0

(* C3: cancel_room on an existing hotel with available_rooms = a <         *)
(* total_rooms returns True and leaves available_rooms = a + 1; with       *)
(* available_rooms >= total_rooms, or with an absent hotel id, it returns  *)
(* False and the hotels snapshot is unchanged.                             *)
C3_CancelRoomContract ==
  [][last'.op = "cancel_room" =>
       LET h == last'.args.hid IN
       /\ (h \in DOMAIN Hotels
             /\ Hotels[h].available_rooms < Hotels[h].total_rooms) =>
            /\ last'.ret = "True"
            /\ h \in DOMAIN Hotels'
            /\ Hotels'[h].available_rooms = Hotels[h].available_rooms + 1
       /\ (h \in DOMAIN Hotels
             /\ Hotels[h].available_rooms >= Hotels[h].total_rooms) =>
            /\ last'.ret = "False"
            /\ hotelsFile' = hotelsFile
       /\ h \notin DOMAIN Hotels =>
            /\ last'.ret = "False"
            /\ hotelsFile' = hotelsFile]_vars

(* cancel_room gave back the one room in use, the hotel is full again *)
C3_Witness ==
  /\ last.op = "cancel_room"
  /\ last.ret = "True"
  /\ last.args.hid \in DOMAIN Hotels
  /\ Hotels[last.args.hid].available_rooms = Hotels[last.args.hid].total_rooms
  /\ Hotels[last.args.hid].total_rooms > 0

(* C4: create_reservation for an existing customer and an existing hotel   *)
(* whose available_rooms is 0 returns None, writes no reservation record   *)
(* and leaves the hotel's available_rooms at 0.                            *)
C4_NoRoomsNoReservation ==
  [][(/\ last'.op = "create_reservation"
      /\ last'.args.cid \in DOMAIN Customers
      /\ last'.args.hid \in DOMAIN Hotels
      /\ Hotels[last'.args.hid].available_rooms = 0) =>
       /\ last'.ret = "None"
       /\ reservationsFile' = reservationsFile
       /\ last'.args.hid \in DOMAIN Hotels'
       /\ Hotels'[last'.args.hid].available_rooms = 0]_vars

(* the second reservation against a one-room hotel was refused by          *)
(* Hotel.reserve_room                                                      *)
C4_Witness ==
  /\ last.op = "create_reservation"
  /\ last.ret = "None"
  /\ last.log = <<"Hotel.reserve_room">>
  /\ last.args.cid \in DOMAIN Customers
  /\ last.args.hid \in DOMAIN Hotels
  /\ Hotels[last.args.hid].available_rooms = 0
  /\ Cardinality(LiveReservations(last.args.hid)) = 1

(* C5: create_reservation with a customer_id absent from the customers     *)
(* snapshot, or a hotel_id absent from the hotels snapshot, returns None   *)
(* and leaves the hotels, customers and reservations snapshots as they     *)
(* were.                                                                   *)
C5_UnknownCustomerOrHotel ==
  [][(/\ last'.op = "create_reservation"
      /\ \/ last'.args.cid \notin DOMAIN Customers
         \/ last'.args.hid \notin DOMAIN Hotels) =>
       /\ last'.ret = "None"
       /\ hotelsFile' = hotelsFile
       /\ customersFile' = customersFile
       /\ reservationsFile' = reservationsFile]_vars

(* an unknown customer asked for a room in a hotel that has free rooms *)
C5_Witness ==
  /\ last.op = "create_reservation"
  /\ last.ret = "None"
  /\ last.args.cid \notin DOMAIN Customers
  /\ last.args.hid \in DOMAIN Hotels
  /\ Hotels[last.args.hid].available_rooms > 0
  /\ Hotels[last.args.hid].available_rooms = Hotels[last.args.hid].total_rooms
  /\ Reservations = EmptyDict

(* C6: whenever create_reservation succeeds with id r, cancelling r right  *)
(* afterwards returns True, r can no longer be displayed, and the hotels   *)
(* and reservations snapshots hold what they held before the create.       *)
C6_CreateThenCancelRestores ==
  \A c \in CustomerIds, h \in HotelIds, r \in ReservationIds :
    LET cr == create_reservation(customersFile, hotelsFile, reservationsFile,
                                 c, h, "d1", "d2", r, "ok", "ok")
        cn == cancel_reservation(cr.hotels, cr.reservations, r, "ok", "ok")
    IN cr.ret = "object" =>
         /\ cn.ret = "True"
         /\ display_reservation(cn.reservations, r).ret = "None"
         /\ _load_hotels(cn.hotels)[h].available_rooms
              = Hotels[h].available_rooms
         /\ _load_hotels(cn.hotels) = Hotels
         /\ _load_reservations(cn.reservations) = Reservations

(* C7: cancel_reservation of an existing reservation removes the record    *)
(* and returns True whatever Hotel.cancel_room returned; when the hotel is *)
(* absent or has available_rooms >= total_rooms the hotels snapshot is     *)
(* unchanged; Hotel.cancel_room is called before the record is removed.    *)
C7_CancelIsBestEffort ==
  [][(/\ last'.op = "cancel_reservation"
      /\ last'.args.rid \in DOMAIN Reservations) =>
       LET r == last'.args.rid
           h == Reservations[r].hotel_id
       IN /\ last'.ret = "True"
          /\ Reservations' = Del(Reservations, r)
          /\ (\/ h \notin DOMAIN Hotels
              \/ Hotels[h].available_rooms >= Hotels[h].total_rooms) =>
                /\ hotelsFile' = hotelsFile
                /\ last'.log[1] = "Hotel.cancel_room:False"
          /\ Len(last'.log) >= 2
          /\ last'.log[1] \in {"Hotel.cancel_room:True", "Hotel.cancel_room:False"}
          /\ last'.log[Len(last'.log)] = "save_reservations:ok"]_vars

(* a reservation whose hotel has been deleted was cancelled *)
C7_Witness ==
  /\ last.op = "cancel_reservation"
  /\ last.ret = "True"
  /\ last.log = <<"Hotel.cancel_room:False", "save_reservations:ok">>
  /\ last.args.rid \notin DOMAIN Reservations
  /\ Hotels = EmptyDict
  /\ hotelsFile.kind = "dict"

(* C10: create_hotel and create_customer with an id that is already stored *)
(* return None and leave their snapshot unchanged.                         *)
C10_DuplicateCreateRefused ==
  [][/\ (last'.op = "create_hotel" /\ last'.args.hid \in DOMAIN Hotels) =>
          /\ last'.ret = "None"
          /\ hotelsFile' = hotelsFile
     /\ (last'.op = "create_customer" /\ last'.args.cid \in DOMAIN Customers) =>
          /\ last'.ret = "None"
          /\ customersFile' = customersFile]_vars

(* a second create_hotel for a stored id, with another name, location and  *)
(* room count, was refused while one of the hotel's rooms was reserved     *)
C10_Witness ==
  /\ last.op = "create_hotel"
  /\ last.ret = "None"
  /\ last.args.hid \in DOMAIN Hotels
  /\ Hotels[last.args.hid].name # last.args.s1
  /\ Hotels[last.args.hid].location # last.args.s2
  /\ Hotels[last.args.hid].total_rooms \notin last.args.rooms
  /\ Hotels[last.args.hid].available_rooms < Hotels[last.args.hid].total_rooms
  /\ Cardinality(DOMAIN Hotels) = 2

SaveLines(name) == {name \o ":" \o w : w \in SaveOutcomes}

(* C8: create_reservation lets Hotel.reserve_room save the decremented     *)
(* hotel before it writes the reservation record; when that second write   *)
(* fails, the hotel is left with one room less, the reservations file has  *)
(* not received the record, nothing is undone and the Reservation object   *)
(* is returned all the same.                                               *)
C8_DecrementBeforeRecord ==
  [][(last'.op = "create_reservation" /\ last'.ret = "object") =>
       LET h == last'.args.hid
           r == last'.args.rid
       IN /\ Len(last'.log) = 3
          /\ last'.log[1] = "Hotel.reserve_room"
          /\ last'.log[2] \in SaveLines("save_hotels")
          /\ last'.log[3] \in SaveLines("save_reservations")
          /\ (/\ last'.log[2] = "save_hotels:ok"
              /\ last'.log[3] # "save_reservations:ok") =>
                /\ last'.obj = ReservationDict(r, last'.args.cid, h,
                                               last'.args.s1, last'.args.s2)
                /\ h \in DOMAIN Hotels'
                /\ Hotels'[h].available_rooms = Hotels[h].available_rooms - 1
                /\ reservationsFile' \in {reservationsFile, GarbledFile}
                /\ r \notin DOMAIN Reservations => r \notin DOMAIN Reservations'
                /\ Reservations' \in {Reservations, EmptyDict}]_vars

(* the first reservation of a hotel was returned, its room is taken, and   *)
(* reservations.json was never written                                     *)
C8_Witness ==
  /\ last.op = "create_reservation"
  /\ last.ret = "object"
  /\ last.log = <<"Hotel.reserve_room", "save_hotels:ok",
                  "save_reservations:unchanged">>
  /\ last.args.hid \in DOMAIN Hotels
  /\ Hotels[last.args.hid].available_rooms
       = Hotels[last.args.hid].total_rooms - 1
  /\ reservationsFile = MissingFile

(* Number of calls that returned True *)
RECURSIVE CountTrue(_)
CountTrue(seq) ==
  IF seq = <<>> THEN 0
  ELSE (IF Head(seq) = "True" THEN 1 ELSE 0) + CountTrue(Tail(seq))

Successes == CountTrue(result[1]) + CountTrue(result[2])

(* C9: two reserve_room calls that interleave between load and save can    *)
(* both return True for a single free room; as long as no call loads       *)
(* while another is between its load and its save, the calls that return   *)
(* True never outnumber the rooms that were free at the start.             *)
C9_OverbookingNeedsInterleaving ==
  Successes > initial["H1"].available_rooms => overlapped

(* both callers loaded available_rooms = 1, both saved 0, both got True *)
C9_Witness ==
  /\ initial["H1"].available_rooms = 1
  /\ result = [p \in Procs |-> <<"True">>]
  /\ pc = [p \in Procs |-> "idle"]
  /\ \A p \in Procs : local[p]["H1"].available_rooms = 0
  /\ Hotels["H1"].available_rooms = 0
  /\ overlapped

(* C11: a successful create returns a record whose fields are the        *)
(* arguments (a hotel with available_rooms = total_rooms), and a display   *)
(* of the same id issued next returns a record with the same fields.       *)
C11_CreateReturnsInputs ==
  [][/\ (last'.op = "create_hotel" /\ last'.ret = "object") =>
          /\ last'.obj = [hotel_id |-> last'.args.hid, name |-> last'.args.s1,
                          location |-> last'.args.s2,
                          total_rooms |-> CHOOSE t \in last'.args.rooms : TRUE,
                          available_rooms |-> CHOOSE t \in last'.args.rooms : TRUE]
          /\ display_hotel(hotelsFile', last'.args.hid).ret = "object"
          /\ display_hotel(hotelsFile', last'.args.hid).obj = last'.obj
     /\ (last'.op = "create_customer" /\ last'.ret = "object") =>
          /\ last'.obj = [customer_id |-> last'.args.cid, name |-> last'.args.s1,
                          email |-> last'.args.s2, phone |-> last'.args.s3]
          /\ display_customer(customersFile', last'.args.cid).ret = "object"
          /\ display_customer(customersFile', last'.args.cid).obj = last'.obj
     /\ (last'.op = "create_reservation" /\ last'.ret = "object") =>
          /\ last'.obj = [reservation_id |-> last'.args.rid,
                          customer_id |-> last'.args.cid,
                          hotel_id |-> last'.args.hid,
                          check_in |-> last'.args.s1,
                          check_out |-> last'.args.s2]
          /\ display_reservation(reservationsFile', last'.args.rid).ret = "object"
          /\ display_reservation(reservationsFile', last'.args.rid).obj
               = last'.obj]_vars

(* a reservation from d2 to d1 took the last room of a hotel named b *)
C11_Witness ==
  /\ last.op = "create_reservation"
  /\ last.ret = "object"
  /\ last.args.s1 = "d2"
  /\ last.obj.check_in = "d2"
  /\ last.obj.check_out = "d1"
  /\ Reservations[last.args.rid] = last.obj
  /\ Hotels[last.args.hid].name = "b"
  /\ Hotels[last.args.hid].available_rooms = 0
  /\ Cardinality(DOMAIN Hotels) = 2

(* C12: delete_customer, delete_hotel, modify_customer, modify_hotel and   *)
(* cancel_reservation with an id that is not stored return False and leave *)
(* the three snapshots unchanged; cancelling a reservation a second time   *)
(* therefore fails and does not give the hotel another room.               *)
C12_AbsentIdIsNoOp ==
  [][/\ (\/ last'.op \in {"delete_customer", "modify_customer"}
              /\ last'.args.cid \notin DOMAIN Customers
         \/ last'.op \in {"delete_hotel", "modify_hotel"}
              /\ last'.args.hid \notin DOMAIN Hotels
         \/ last'.op = "cancel_reservation"
              /\ last'.args.rid \notin DOMAIN Reservations) =>
          /\ last'.ret = "False"
          /\ hotelsFile' = hotelsFile
          /\ customersFile' = customersFile
          /\ reservationsFile' = reservationsFile
     /\ (/\ last'.op = "cancel_reservation"
         /\ last.op = "cancel_reservation"
         /\ last.ret = "True"
         /\ last'.args.rid = last.args.rid) =>
          /\ last'.ret = "False"
          /\ hotelsFile' = hotelsFile]_vars

(* the reservation cancelled by the call before was cancelled again while  *)
(* its hotel still had a room in use                                       *)
C12_Witness ==
  /\ last.op = "cancel_reservation"
  /\ last.ret = "False"
  /\ last.follows = [op |-> "cancel_reservation", rid |-> last.args.rid]
  /\ \E h \in DOMAIN Hotels :
       /\ Hotels[h].available_rooms = 1
       /\ Hotels[h].total_rooms = 2
       /\ Cardinality(LiveReservations(h)) = 1

(* C13: modify_hotel on a stored hotel with total T and available a, given *)
(* total_rooms = t, stores total_rooms = t whatever t is and               *)
(* available_rooms = max(0, a + (t - T)); given no total_rooms it leaves   *)
(* both numbers as they were.                                              *)
C13_ModifyHotelRooms ==
  [][(last'.op = "modify_hotel" /\ last'.args.hid \in DOMAIN Hotels) =>
       LET old == Hotels[last'.args.hid]
           new == Hotels'[last'.args.hid]
       IN /\ last'.ret = "True"
          /\ \A t \in last'.args.rooms :
               /\ new.total_rooms = t
               /\ new.available_rooms =
                    IF old.available_rooms + (t - old.total_rooms) >= 0
                    THEN old.available_rooms + (t - old.total_rooms) ELSE 0
          /\ last'.args.rooms = {} =>
               /\ new.total_rooms = old.total_rooms
               /\ new.available_rooms = old.available_rooms]_vars

(* a hotel with every room free was enlarged by one room *)
C13_Witness ==
  /\ last.op = "modify_hotel"
  /\ last.ret = "True"
  /\ last.args.rooms = {2}
  /\ \E b \in last.before : b.total_rooms = 1 /\ b.available_rooms = 1
  /\ Hotels[last.args.hid].total_rooms = 2
  /\ Hotels[last.args.hid].available_rooms = 2

(* C14: from a hotel with 0 <= available_rooms <= total_rooms, a           *)
(* modify_hotel that reduces total_rooms keeps available_rooms at or above *)
(* 0 but not at or below the new total: available_rooms ends above         *)
(* total_rooms exactly when the new total is negative.                     *)
C14_ReducedTotalOnlyLowerBound ==
  [][(/\ last'.op = "modify_hotel"
      /\ last'.args.hid \in DOMAIN Hotels
      /\ 0 <= Hotels[last'.args.hid].available_rooms
      /\ Hotels[last'.args.hid].available_rooms <= Hotels[last'.args.hid].total_rooms) =>
       \A t \in last'.args.rooms :
         t < Hotels[last'.args.hid].total_rooms =>
           /\ Hotels'[last'.args.hid].available_rooms >= 0
           /\ (Hotels'[last'.args.hid].available_rooms > Hotels'[last'.args.hid].total_rooms)
                <=> (t < 0)]_vars

(* a hotel within its bounds was reduced and now has more rooms available  *)
(* than rooms                                                              *)
C14_Witness ==
  /\ last.op = "modify_hotel"
  /\ \E b \in last.before :
       /\ 0 <= b.available_rooms
       /\ b.available_rooms <= b.total_rooms
       /\ \A t \in last.args.rooms : t < b.total_rooms
  /\ last.args.rooms # {}
  /\ Hotels[last.args.hid].available_rooms > Hotels[last.args.hid].total_rooms

(* C15: delete_customer and delete_hotel on a stored id return True and    *)
(* remove that record and no other: display of the id then returns None, a *)
(* create with the id succeeds again, and the other records and the other  *)
(* files are as before.                                                    *)
C15_DeleteRemovesExactlyOne ==
  [][/\ (last'.op = "delete_hotel" /\ last'.args.hid \in DOMAIN Hotels) =>
          /\ last'.ret = "True"
          /\ DOMAIN Hotels' = DOMAIN Hotels \ {last'.args.hid}
          /\ \A k \in DOMAIN Hotels' : Hotels'[k] = Hotels[k]
          /\ display_hotel(hotelsFile', last'.args.hid).ret = "None"
          /\ \A f \in FieldValues, t \in Rooms :
               create_hotel(hotelsFile', last'.args.hid, f[1], f[2], t, "ok").ret = "object"
          /\ UNCHANGED <<customersFile, reservationsFile>>
     /\ (last'.op = "delete_customer" /\ last'.args.cid \in DOMAIN Customers) =>
          /\ last'.ret = "True"
          /\ DOMAIN Customers' = DOMAIN Customers \ {last'.args.cid}
          /\ \A k \in DOMAIN Customers' : Customers'[k] = Customers[k]
          /\ display_customer(customersFile', last'.args.cid).ret = "None"
          /\ \A f \in FieldValues :
               create_customer(customersFile', last'.args.cid, f[1], f[2], f[3], "ok").ret = "object"
          /\ UNCHANGED <<hotelsFile, reservationsFile>>]_vars

(* one of two customers was deleted; the other one, with other field       *)
(* values, is still stored next to two hotels                              *)
C15_Witness ==
  /\ last.op = "delete_customer"
  /\ last.ret = "True"
  /\ last.args.cid \notin DOMAIN Customers
  /\ \E k \in DOMAIN Customers : Customers[k].name = "b"
  /\ Cardinality(DOMAIN Hotels) = 2

(* C16: modify_customer on a stored id returns True and overwrites the     *)
(* fields among name, email and phone whose argument is a non-empty        *)
(* string; a field whose argument is omitted or "" keeps its value,        *)
(* customer_id stays, and the other customers are as before.               *)
C16_ModifyCustomerFrame ==
  [][(last'.op = "modify_customer" /\ last'.args.cid \in DOMAIN Customers) =>
       LET old == Customers[last'.args.cid]
           new == Customers'[last'.args.cid]
       IN /\ last'.ret = "True"
          /\ DOMAIN Customers' = DOMAIN Customers
          /\ new.customer_id = last'.args.cid
          /\ old.customer_id = last'.args.cid
          /\ new.name = IF last'.args.s1 \in {NoneStr, ""}
                        THEN old.name ELSE last'.args.s1
          /\ new.email = IF last'.args.s2 \in {NoneStr, ""}
                         THEN old.email ELSE last'.args.s2
          /\ new.phone = IF last'.args.s3 \in {NoneStr, ""}
                         THEN old.phone ELSE last'.args.s3
          /\ \A k \in DOMAIN Customers \ {last'.args.cid} :
               Customers'[k] = Customers[k]
          /\ UNCHANGED <<hotelsFile, reservationsFile>>]_vars

(* a call with name "", a new email and no phone changed the email only,   *)
(* next to a second customer                                               *)
C16_Witness ==
  /\ last.op = "modify_customer"
  /\ last.ret = "True"
  /\ last.args.s1 = "" /\ last.args.s2 = "c" /\ last.args.s3 = NoneStr
  /\ Customers[last.args.cid].name = "a"
  /\ Customers[last.args.cid].email = "c"
  /\ Customers[last.args.cid].phone = "a"
  /\ \E k \in DOMAIN Customers : k # last.args.cid /\ Customers[k].name = "b"

FailedSaves(name) == {name \o ":" \o w : w \in SaveFaults \ {"ok"}}

SaveFailed(log, name) == \E i \in DOMAIN log : log[i] \in FailedSaves(name)

(* C17: a failed save is reported by no operation: a call whose save       *)
(* failed returns what it returns after a successful save (the object for  *)
(* a create, True for the others), the file whose save failed has not      *)
(* received the change, and a create_reservation whose Hotel.reserve_room  *)
(* could not save goes on to write the reservation record.                 *)
C17_SaveFailureIsSilent ==
  [][/\ (\/ SaveFailed(last'.log, "save_hotels")
         \/ SaveFailed(last'.log, "save_customers")
         \/ SaveFailed(last'.log, "save_reservations")) =>
          last'.ret = IF last'.op \in {"create_hotel", "create_customer",
                                       "create_reservation"}
                      THEN "object" ELSE "True"
     /\ SaveFailed(last'.log, "save_hotels") =>
          hotelsFile' \in {hotelsFile, GarbledFile}
     /\ SaveFailed(last'.log, "save_customers") =>
          customersFile' \in {customersFile, GarbledFile}
     /\ SaveFailed(last'.log, "save_reservations") =>
          reservationsFile' \in {reservationsFile, GarbledFile}
     /\ (last'.op = "create_reservation" /\ SaveFailed(last'.log, "save_hotels")) =>
          /\ Len(last'.log) = 3
          /\ last'.log[3] = "save_reservations:ok" =>
               /\ last'.args.rid \in DOMAIN Reservations'
               /\ Reservations'[last'.args.rid] = last'.obj]_vars

(* C18: a file that is missing, does not decode or decodes to something    *)
(* other than a dictionary is an empty dataset to every operation, and     *)
(* none raises: display returns None, reserve_room and cancel_reservation  *)
(* return False and write nothing, a create starts a new dictionary, and   *)
(* create_reservation over such a customers file or hotels file returns    *)
(* None for every customer_id and changes no file.                         *)
C18_BadSnapshotLoadsEmpty ==
  [][/\ (last'.op = "create_reservation"
           /\ (customersFile.kind # "dict" \/ hotelsFile.kind # "dict")) =>
          /\ last'.ret = "None"
          /\ UNCHANGED <<hotelsFile, customersFile, reservationsFile>>
     /\ (last'.op = "display_hotel" /\ hotelsFile.kind # "dict") =>
          last'.ret = "None"
     /\ (last'.op = "display_customer" /\ customersFile.kind # "dict") =>
          last'.ret = "None"
     /\ (last'.op = "display_reservation" /\ reservationsFile.kind # "dict") =>
          last'.ret = "None"
     /\ (last'.op = "reserve_room" /\ hotelsFile.kind # "dict") =>
          last'.ret = "False" /\ hotelsFile' = hotelsFile
     /\ (last'.op = "cancel_reservation" /\ reservationsFile.kind # "dict") =>
          /\ last'.ret = "False"
          /\ UNCHANGED <<hotelsFile, customersFile, reservationsFile>>
     /\ (last'.op = "create_hotel" /\ hotelsFile.kind # "dict") =>
          /\ last'.ret = "object"
          /\ hotelsFile' = DictFile(Put(EmptyDict, last'.args.hid, last'.obj))
     /\ (last'.op = "create_customer" /\ customersFile.kind # "dict") =>
          /\ last'.ret = "object"
          /\ customersFile' = DictFile(Put(EmptyDict, last'.args.cid, last'.obj))
     /\ last'.ret \notin {"TypeError", "KeyError", "OSError"}]_vars

(* The hotels file with the record of h completed as Hotel.from_dict does  *)
Completed(file, h) ==
  DictFile(Put(file.dict, h, Hotel_from_dict(file.dict[h])))

(* C19: on a stored hotel record without available_rooms, display_hotel,   *)
(* reserve_room, cancel_room and modify_hotel with total_rooms return and  *)
(* store what they do when the record holds available_rooms = total_rooms, *)
(* and none of them raises.                                                *)
C19_MissingAvailableDefaultsToTotal ==
  [][(/\ last'.args.hid \in DOMAIN Hotels
      /\ "available_rooms" \notin DOMAIN Hotels[last'.args.hid]) =>
       LET h == last'.args.hid
           full == Completed(hotelsFile, h)
       IN /\ last'.op = "display_hotel" =>
               /\ last'.ret = "object"
               /\ last'.obj = display_hotel(full, h).obj
          /\ last'.op = "reserve_room" =>
               /\ last'.ret = reserve_room(full, h, "ok").ret
               /\ hotelsFile' = reserve_room(full, h, "ok").file
          /\ last'.op = "cancel_room" =>
               /\ last'.ret = cancel_room(full, h, "ok").ret
               /\ hotelsFile' = hotelsFile
          /\ (last'.op = "modify_hotel" /\ last'.args.rooms # {}) =>
               /\ last'.ret = "True"
               /\ hotelsFile' = modify_hotel(full, h, last'.args.s1, last'.args.s2,
                                             last'.args.rooms, "ok").file
          /\ last'.ret \notin Exceptions]_vars

(* C20: for one sequential caller whose create_hotel and modify_hotel      *)
(* calls all pass total_rooms >= 0, every stored hotel has                 *)
(* 0 <= available_rooms <= total_rooms after any sequence of create_hotel, *)
(* modify_hotel, delete_hotel, reserve_room, cancel_room,                  *)
(* create_reservation and cancel_reservation.                              *)
C20_AvailableWithinTotal ==
  \A h \in DOMAIN Hotels :
    /\ 0 <= Hotels[h].available_rooms
    /\ Hotels[h].available_rooms <= Hotels[h].total_rooms

(* a hotel with both of its two rooms reserved was cut to one room *)
C20_Witness ==
  /\ last.op = "modify_hotel"
  /\ last.args.rooms = {1}
  /\ \E b \in last.before : b.total_rooms = 2 /\ b.available_rooms = 0
  /\ Hotels[last.args.hid].total_rooms = 1
  /\ Hotels[last.args.hid].available_rooms = 0
  /\ Cardinality(LiveReservations(last.args.hid)) = 2

(* C21: for one sequential caller, after any sequence of the operations of *)
(* the three stores, the reservation records that name a stored hotel are  *)
(* never more than its total_rooms.                                        *)
C21_NoOverbooking ==
  \A h \in DOMAIN Hotels :
    Cardinality(LiveReservations(h)) <= Hotels[h].total_rooms

(* C22: modify_hotel with a total_rooms moves available_rooms by what      *)
(* total_rooms moves, so that total_rooms - available_rooms of the hotel   *)
(* is the same after the call as before it, and still the number of the    *)
(* hotel's reservation records if it was before.                           *)
C22_ModifyKeepsRoomsInUse ==
  [][(/\ last'.op = "modify_hotel"
      /\ last'.args.hid \in DOMAIN Hotels
      /\ last'.args.rooms # {}) =>
       LET h == last'.args.hid
           old == Hotels[h]
           new == Hotels'[h]
       IN /\ new.total_rooms - new.available_rooms
               = old.total_rooms - old.available_rooms
          /\ old.total_rooms - old.available_rooms = Cardinality(LiveReservations(h)) =>
               new.total_rooms - new.available_rooms
                 = Cardinality({r \in DOMAIN Reservations' :
                                  Reservations'[r].hotel_id = h})]_vars

(* C23: reserve_room, cancel_room, create_reservation and                  *)
(* cancel_reservation change nothing in the hotels file but                *)
(* available_rooms of the hotel they name, by 1 (down for the first and    *)
(* third, up for the others); hotel_id, name, location and total_rooms of  *)
(* that hotel and every other record stay, and total_rooms of a hotel that *)
(* stays stored changes in modify_hotel only.                              *)
C23_RoomTrafficFrame ==
  [][/\ last'.op \in {"reserve_room", "cancel_room", "create_reservation",
                      "cancel_reservation"} =>
          LET named == IF last'.op # "cancel_reservation" THEN {last'.args.hid}
                       ELSE {Reservations[r].hotel_id :
                               r \in {last'.args.rid} \cap DOMAIN Reservations}
              step == IF last'.op \in {"reserve_room", "create_reservation"}
                      THEN -1 ELSE 1
          IN /\ DOMAIN Hotels' = DOMAIN Hotels
             /\ \A k \in DOMAIN Hotels :
                  \/ Hotels'[k] = Hotels[k]
                  \/ /\ k \in named
                     /\ Hotels'[k].hotel_id = Hotels[k].hotel_id
                     /\ Hotels'[k].name = Hotels[k].name
                     /\ Hotels'[k].location = Hotels[k].location
                     /\ Hotels'[k].total_rooms = Hotels[k].total_rooms
                     /\ Hotels'[k].available_rooms = Hotels[k].available_rooms + step
     /\ \A k \in DOMAIN Hotels \cap DOMAIN Hotels' :
          Hotels'[k].total_rooms # Hotels[k].total_rooms =>
            last'.op = "modify_hotel"]_vars

(* cancel_reservation gave a room back to one of two stored hotels, both   *)
(* of which had a room in use                                              *)
C23_Witness ==
  /\ last.op = "cancel_reservation"
  /\ last.ret = "True"
  /\ last.log[1] = "Hotel.cancel_room:True"
  /\ Cardinality(DOMAIN Hotels) = 2
  /\ \E h \in DOMAIN Hotels, k \in DOMAIN Hotels :
       /\ h # k
       /\ Hotels[h].available_rooms = Hotels[h].total_rooms
       /\ Hotels[k].available_rooms < Hotels[k].total_rooms
       /\ Cardinality(LiveReservations(k)) = 1

(* C24: an operation of Customer leaves the hotels file and the            *)
(* reservations file alone, an operation of Hotel the customers file and   *)
(* the reservations file, an operation of Reservation the customers file,  *)
(* and display_customer, display_hotel and display_reservation leave all   *)
(* three alone whatever they return.                                       *)
C24_SnapshotOwnership ==
  [][/\ last'.op \in {"create_customer", "delete_customer", "modify_customer",
                      "display_customer"} =>
          UNCHANGED <<hotelsFile, reservationsFile>>
     /\ last'.op \in {"create_hotel", "delete_hotel", "modify_hotel",
                      "display_hotel", "reserve_room", "cancel_room"} =>
          UNCHANGED <<customersFile, reservationsFile>>
     /\ last'.op \in {"create_reservation", "cancel_reservation",
                      "display_reservation"} =>
          UNCHANGED customersFile
     /\ last'.op \in {"display_customer", "display_hotel", "display_reservation"} =>
          UNCHANGED <<hotelsFile, customersFile, reservationsFile>>]_vars

(* display_hotel returned a hotel with a room in use while a customer and  *)
(* a reservation were stored                                               *)
C24_Witness ==
  /\ last.op = "display_hotel"
  /\ last.ret = "object"
  /\ last.obj.available_rooms < last.obj.total_rooms
  /\ DOMAIN Customers # {}
  /\ DOMAIN Reservations # {}

(* The reservation records left without their hotel or their customer *)
Orphans ==
  {r \in DOMAIN Reservations :
     \/ Reservations[r].hotel_id \notin DOMAIN Hotels
     \/ Reservations[r].customer_id \notin DOMAIN Customers}

(* C25: delete_customer and delete_hotel of a stored id return True        *)
(* whatever reservations name the id, and the reservations file stays as   *)
(* it was; every record left without its hotel or customer is still        *)
(* returned by display_reservation, and cancel_reservation removes it and  *)
(* returns True.                                                           *)
C25_DeleteLeavesOrphans ==
  [][/\ (\/ last'.op = "delete_hotel" /\ last'.args.hid \in DOMAIN Hotels
         \/ last'.op = "delete_customer" /\ last'.args.cid \in DOMAIN Customers) =>
          /\ last'.ret = "True"
          /\ reservationsFile' = reservationsFile
          /\ \A r \in DOMAIN Reservations :
               /\ display_reservation(reservationsFile', r).ret = "object"
               /\ display_reservation(reservationsFile', r).obj = Reservations[r]
               /\ cancel_reservation(hotelsFile', reservationsFile', r, "ok", "ok").ret = "True"
     /\ (last'.op = "cancel_reservation" /\ last'.args.rid \in Orphans) =>
          /\ last'.ret = "True"
          /\ DOMAIN Reservations' = DOMAIN Reservations \ {last'.args.rid}]_vars

(* the hotel of a stored reservation was deleted with the room still in    *)
(* use                                                                     *)
C25_Witness ==
  /\ last.op = "delete_hotel"
  /\ last.ret = "True"
  /\ last.args.hid \notin DOMAIN Hotels
  /\ \E r \in DOMAIN Reservations :
       /\ Reservations[r].hotel_id = last.args.hid
       /\ Reservations[r].customer_id \in DOMAIN Customers

(* C26: create_reservation never compares the new id with the stored ids.  *)
(* A call for a stored customer and a stored hotel with a free room        *)
(* returns the object whatever id is drawn; when the id is the key of a    *)
(* stored record, that record is replaced by the new one, no key is added, *)
(* the other records stay, and available_rooms of the hotel still goes     *)
(* down by 1.                                                              *)
C26_IdCollisionReplaces ==
  [][/\ (/\ last'.op = "create_reservation"
         /\ last'.args.cid \in DOMAIN Customers
         /\ last'.args.hid \in DOMAIN Hotels
         /\ Hotels[last'.args.hid].available_rooms > 0) =>
          last'.ret = "object"
     /\ (/\ last'.op = "create_reservation"
         /\ last'.ret = "object"
         /\ last'.args.rid \in DOMAIN Reservations) =>
          /\ DOMAIN Reservations' = DOMAIN Reservations
          /\ Reservations'[last'.args.rid] =
               [reservation_id |-> last'.args.rid, customer_id |-> last'.args.cid,
                hotel_id |-> last'.args.hid, check_in |-> last'.args.s1,
                check_out |-> last'.args.s2]
          /\ \A r \in DOMAIN Reservations \ {last'.args.rid} :
               Reservations'[r] = Reservations[r]
          /\ Hotels'[last'.args.hid].available_rooms
               = Hotels[last'.args.hid].available_rooms - 1]_vars

(* two calls in a row drew the same id for two customers and two hotels:   *)
(* one record is stored and each hotel has its one room in use             *)
C26_Witness ==
  /\ last.op = "create_reservation"
  /\ last.ret = "object"
  /\ last.follows = [op |-> "create_reservation", rid |-> last.args.rid]
  /\ DOMAIN Reservations = {last.args.rid}
  /\ Reservations[last.args.rid] = last.obj
  /\ \A h \in HotelIds :
       /\ h \in DOMAIN Hotels
       /\ Hotels[h].total_rooms = 1
       /\ Hotels[h].available_rooms = 0
  /\ Cardinality(DOMAIN Customers) = 2

====
